---- MODULE Spec2Model ----
(***************************************************************************)
(* Model of the Telegram conversation summarizer bot:                      *)
(*   src/database.py    Database (Supabase tables messages, group_settings) *)
(*   src/summarizer.py  Summarizer (Groq chat completion)                  *)
(*   src/bot.py         the command, callback, message and job handlers    *)
(*   src/config.py      the settings                                       *)
(*                                                                         *)
(* Time is counted in minutes.  Python's None is the value None below.     *)
(* Every .execute() is one request to the backend and either answers or    *)
(* raises; the Groq call either answers or raises.                         *)
(***************************************************************************)
EXTENDS Integers, Sequences, FiniteSets, TLC

\* ---------------------------------------------------------------- bounds
MaxMessages == 2        \* inbound text messages ingested in one behaviour
MaxTicks == 2           \* clock advances in one behaviour

\* ------------------------------------------------------ src/config.py
MESSAGE_RETENTION_DAYS == 7
MAX_MESSAGES_PER_SUMMARY == 500
DEFAULT_LOOKBACK_MINUTES == 60
TIME_WINDOWS == {10, 30, 60, 360, 720, 1440, 4320, 10080, 43200}
MinutesPerDay == 1440

\* ---------------------------------------------------- src/database.py
\* cleanup_old_data(self, days=7)
CleanupDays == 7
\* get_user_stats(self, group_id, minutes, limit=10)
StatsLimit == 10

\* ------------------------------------------------------------- inputs
None == "None"

\* update.message.chat: chat_id and type
Chats == { [id |-> 1, type |-> "group"],
           [id |-> 2, type |-> "supergroup"],
           [id |-> 3, type |-> "private"] }
GroupChats == {c \in Chats : c.type \in {"group", "supergroup"}}

\* update.message.from_user: id, username, first_name
Users == { [id |-> 1, username |-> "alice", first_name |-> "Alice"],
           [id |-> 2, username |-> None,    first_name |-> "Bob"],
           [id |-> 3, username |-> None,    first_name |-> None] }

\* the users who write in a chat: everybody in the group, the first user elsewhere
Members(chat) == IF chat.id = 1 THEN Users ELSE {u \in Users : u.id = 1}

\* update.message.text: None for a photo, sticker, ...
Texts == {"hi", None}

\* the clock moves by the age at which cleanup_old_data deletes: a message
\* is then as old as the window "1 week" and as the cutoff of the cleanup
Steps == {CleanupDays * MinutesPerDay}

\* ------------------------------------------------------------- python
Truthy(x) == x # None /\ x # ""

\* a or b
Or(a, b) == IF Truthy(a) THEN a ELSE b

Min(a, b) == IF a <= b THEN a ELSE b

\* datetime.isoformat(): the text form the backend stores and compares
isoformat(t) == [iso |-> t]

\* .gte("timestamp", x) and .lt("timestamp", x) of the backend
gte(ts, x) == ts.iso >= x.iso
lt(ts, x) == ts.iso < x.iso

\* all the orders in which the backend may return the rows of S
RECURSIVE Perms(_)
Perms(S) ==
  IF S = {} THEN {<<>>}
  ELSE UNION { { <<x>> \o p : p \in Perms(S \ {x}) } : x \in S }

\* .order("timestamp", desc=False): the rows of S by ascending timestamp, rows
\* of equal timestamp in any order.  S is split at its middle timestamp, the
\* halves are ordered and joined.
RECURSIVE order_timestamp(_)
order_timestamp(S) ==
  LET stamps == {r.timestamp.iso : r \in S}
  IN IF Cardinality(stamps) <= 1 THEN Perms(S)
     ELSE LET middle == CHOOSE t \in stamps :
                          Cardinality({u \in stamps : u < t}) = Cardinality(stamps) \div 2
              older == {r \in S : r.timestamp.iso < middle}
              newer == {r \in S : r.timestamp.iso >= middle}
          IN { a \o b : a \in order_timestamp(older), b \in order_timestamp(newer) }

VARIABLES
  now,             \* datetime.now(timezone.utc), in minutes
  ticks,           \* clock advances so far
  messages,        \* table "messages": a set of rows
  next_id,         \* serial of table "messages"
  sent,            \* message ids Telegram has handed out
  group_settings,  \* table "group_settings": a set of rows
  pc,              \* per caller: position inside update_group_setting
  local,           \* per caller: the locals of setting_callback / update_group_setting
  last             \* the operation that ended last, with its inputs and outcome

vars == <<now, ticks, messages, next_id, sent, group_settings, pc, local, last>>

\* ------------------------------------------------- src/database.py
\* A Database method is the set of its possible outcomes: what it returns
\* (value), whether the backend answered (backend_ok) and, for a write, the
\* table afterwards (table).

\* the select without .eq("group_id", group_id)
select_since_any_group(group_id, cutoff_time) ==
  {m \in messages : gte(m.timestamp, isoformat(cutoff_time))}

\* rows of group_id with timestamp >= cutoff_time: .eq("group_id").gte("timestamp")
select_since(group_id, cutoff_time) ==
  {m \in messages : m.group_id = group_id /\ gte(m.timestamp, isoformat(cutoff_time))}

store_message(group_id, message_id, user_id, username, first_name, message_text, timestamp) ==
  LET data == [id |-> next_id, group_id |-> group_id, message_id |-> message_id,
               user_id |-> user_id, username |-> username, first_name |-> first_name,
               message_text |-> message_text, timestamp |-> isoformat(timestamp)]
  IN { [backend_ok |-> TRUE, value |-> "result", table |-> messages \cup {data}],
       [backend_ok |-> FALSE, value |-> None, table |-> messages] }

get_recent_messages(group_id, minutes) ==
  LET cutoff_time == now - minutes
  IN { [backend_ok |-> TRUE, value |-> rows] :
         rows \in order_timestamp(select_since(group_id, cutoff_time)) }
     \cup { [backend_ok |-> FALSE, value |-> <<>>] }

get_user_messages(group_id, username, minutes) ==
  LET cutoff_time == now - minutes
  IN { [backend_ok |-> TRUE, value |-> rows] :
         rows \in order_timestamp({m \in select_since(group_id, cutoff_time) :
                                     m.username = username}) }
     \cup { [backend_ok |-> FALSE, value |-> <<>>] }

\* the keys of rows in the order of their first appearance (a dict keeps
\* insertion order)
RECURSIVE first_appearance(_)
first_appearance(rows) ==
  IF rows = <<>> THEN <<>>
  ELSE LET init == first_appearance(SubSeq(rows, 1, Len(rows) - 1))
           key == rows[Len(rows)]
       IN IF \E i \in 1..Len(init) : init[i] = key THEN init ELSE Append(init, key)

count_of(rows, key) == Cardinality({i \in 1..Len(rows) : rows[i] = key})

\* sorted(items, key=count, reverse=True): stable, equal counts keep their order
RECURSIVE sorted_by_count(_, _)
sorted_by_count(keys, rows) ==
  IF keys = <<>> THEN <<>>
  ELSE LET top == CHOOSE i \in 1..Len(keys) :
                    /\ \A j \in 1..Len(keys) : count_of(rows, keys[i]) >= count_of(rows, keys[j])
                    /\ \A j \in 1..(i - 1) : count_of(rows, keys[j]) < count_of(rows, keys[i])
           rest == [j \in 1..(Len(keys) - 1) |-> IF j < top THEN keys[j] ELSE keys[j + 1]]
       IN <<keys[top]>> \o sorted_by_count(rest, rows)

\* user_counts, sorted_stats and stats of get_user_stats for the rows returned
user_stats(rows, limit) ==
  LET sorted_stats == sorted_by_count(first_appearance(rows), rows)
  IN [i \in 1..Min(limit, Len(sorted_stats)) |->
        <<sorted_stats[i][1], sorted_stats[i][2], count_of(rows, sorted_stats[i])>>]

\* select("username, first_name") of a row
name_columns(rows) == [i \in 1..Len(rows) |-> <<rows[i].username, rows[i].first_name>>]

get_user_stats(group_id, minutes, limit) ==
  LET cutoff_time == now - minutes
  IN { [backend_ok |-> TRUE, value |-> user_stats(name_columns(rows), limit)] :
         rows \in Perms(select_since(group_id, cutoff_time)) }
     \cup { [backend_ok |-> FALSE, value |-> <<>>] }

get_group_setting(group_id) ==
  LET data == {s \in group_settings : s.group_id = group_id}
  IN { [backend_ok |-> TRUE,
        value |-> IF Len(rows) > 0 THEN rows[1].lookback_minutes
                  ELSE DEFAULT_LOOKBACK_MINUTES] : rows \in Perms(data) }
     \cup { [backend_ok |-> FALSE, value |-> DEFAULT_LOOKBACK_MINUTES] }

\* update_group_setting, first request: does a setting exist?
existing_setting(group_id) ==
  { [backend_ok |-> TRUE, value |-> \E s \in group_settings : s.group_id = group_id],
    [backend_ok |-> FALSE, value |-> FALSE] }

\* update_group_setting, second request: .update(data).eq("group_id") or .insert(data)
write_setting(group_id, lookback_minutes, existing) ==
  LET updated == { IF s.group_id = group_id
                   THEN [s EXCEPT !.lookback_minutes = lookback_minutes] ELSE s :
                   s \in group_settings }
      inserted == group_settings \cup
                  { [id |-> Cardinality(group_settings) + 1, group_id |-> group_id,
                     lookback_minutes |-> lookback_minutes] }
  IN { [backend_ok |-> TRUE, value |-> "result",
        table |-> IF existing THEN updated ELSE inserted],
       [backend_ok |-> FALSE, value |-> None, table |-> group_settings] }

\* cleanup_old_data with .lte in place of .lt
cleanup_old_data_lte(days) ==
  LET cutoff_date == now - days * MinutesPerDay
  IN { [backend_ok |-> TRUE, value |-> "result",
        table |-> {m \in messages : gte(m.timestamp, isoformat(cutoff_date + 1))}],
       [backend_ok |-> FALSE, value |-> None, table |-> messages] }

\* cleanup_old_data without .lt("timestamp", ...): the delete takes every row
cleanup_old_data_unfiltered(days) ==
  { [backend_ok |-> TRUE, value |-> "result", table |-> {}],
    [backend_ok |-> FALSE, value |-> None, table |-> messages] }

cleanup_old_data(days) ==
  LET cutoff_date == now - days * MinutesPerDay
  IN { [backend_ok |-> TRUE, value |-> "result",
        table |-> {m \in messages : ~lt(m.timestamp, isoformat(cutoff_date))}],
       [backend_ok |-> FALSE, value |-> None, table |-> messages] }

\* ------------------------------------------------ src/summarizer.py
\* the name shown for the author of a row
display_name(msg) == Or(msg.username, msg.first_name)

\* "[timestamp] name: text", one line per message
conversation(msgs) ==
  [i \in 1..Len(msgs) |-> <<msgs[i].timestamp, display_name(msgs[i]), msgs[i].message_text>>]

\* a text shown to the user: which text, the count and the detail it embeds
Text(kind, count, detail) == [kind |-> kind, count |-> count, detail |-> detail]

\* summarize_messages without its first two lines (if not messages: return ...)
summarize_messages_unguarded(msgs) ==
  { [value |-> Text("summary_of", Len(msgs), "summary"),
     submitted |-> <<conversation(msgs)>>, generation |-> "answered", raised |-> FALSE],
    [value |-> Text("error_generating_summary", 0, "timeout"),
     submitted |-> <<conversation(msgs)>>, generation |-> "raised", raised |-> FALSE] }

\* summarize_messages without the try / except around the Groq call
summarize_messages_uncaught(msgs) ==
  IF ~(Len(msgs) > 0)
  THEN { [value |-> Text("no_messages_found", 0, ""),
          submitted |-> <<>>, generation |-> "none", raised |-> FALSE] }
  ELSE { [value |-> Text("summary_of", Len(msgs), "summary"),
          submitted |-> <<conversation(msgs)>>, generation |-> "answered",
          raised |-> FALSE],
         [value |-> Text("timeout", 0, ""),
          submitted |-> <<conversation(msgs)>>, generation |-> "raised",
          raised |-> TRUE] }

\* Summarizer.summarize_messages: the text returned (value), the transcripts
\* given to the Groq client, one per call (submitted), how the call ended
\* (generation) and whether an exception leaves the method (raised)
summarize_messages(msgs) ==
  IF ~(Len(msgs) > 0)
  THEN { [value |-> Text("no_messages_found", 0, ""),
          submitted |-> <<>>, generation |-> "none", raised |-> FALSE] }
  ELSE { [value |-> Text("summary_of", Len(msgs), "summary"),
          submitted |-> <<conversation(msgs)>>, generation |-> "answered",
          raised |-> FALSE],
         [value |-> Text("error_generating_summary", 0, "timeout"),
          submitted |-> <<conversation(msgs)>>, generation |-> "raised",
          raised |-> FALSE] }

\* the methods class Summarizer defines
SummarizerMethods == {"summarize_messages", "summarize_user_messages"}

\* ------------------------------------------------------- src/bot.py
\* the concurrent callers of setting_callback (bot processes on one database)
Callers == {1, 2}

\* query.data of a callback: a button of the /setting keyboard, or data a
\* client made up that still matches the pattern "^set_"
CallbackData == {"set_10", "set_0", "set_abc"}

\* int(query.data.replace("set_", "")): ok is FALSE for ValueError
parse_minutes(data) ==
  CASE data = "set_10" -> [ok |-> TRUE, minutes |-> 10]
    [] data = "set_0" -> [ok |-> TRUE, minutes |-> 0]
    [] OTHER -> [ok |-> FALSE, minutes |-> 0]

\* member.status of the user who sent /setting
Statuses == {"creator", "administrator", "member"}

\* member.status of the user who pressed a button of the keyboard; the message
\* with the keyboard is in the group, and every member of the group can press
Pressers == {"administrator", "member"}

\* context.args of /person
PersonArgs == {<<>>, <<"@alice">>, <<"unknown">>}

\* context.args[0].lstrip("@")
lstrip_at(arg) == IF arg = "@alice" THEN "alice" ELSE arg

Idle == [group_id |-> 0, minutes |-> 0, existing |-> FALSE, status |-> "none"]

\* What an operation leaves behind:
\*   op, chat_id   its name and the chat it was for
\*   minutes       the window it used or the value it was given
\*   rows          the rows it fetched
\*   stats         the statistics it computed
\*   lines         the lines of the report it rendered
\*   replies       the texts it sent or returned, in order
\*   submitted     the transcripts it gave to the Groq client, one per call
\*   generation    how the Groq call ended
\*   backend       for each backend request, whether it was answered
\*   raised        whether an exception left the operation
\*   status        of a callback: the status of the user who pressed
\*   cutoff, deleted, repeat, earlier   of a cleanup, see daily_cleanup
Ended(op, chat_id) ==
  [op |-> op, chat_id |-> chat_id, minutes |-> 0, rows |-> <<>>, stats |-> <<>>,
   lines |-> <<>>, replies |-> <<>>, submitted |-> <<>>, generation |-> "none",
   backend |-> <<>>, raised |-> FALSE, status |-> "none",
   cutoff |-> 0, deleted |-> {}, repeat |-> FALSE, earlier |-> {}]

Init ==
  /\ now = 0
  /\ ticks = 0
  /\ messages = {}
  /\ next_id = 1
  /\ sent = 0
  /\ group_settings = {}
  /\ pc = [p \in Callers |-> "idle"]
  /\ local = [p \in Callers |-> Idle]
  /\ last = Ended("main", 0)

\* time passes
Tick ==
  /\ ticks < MaxTicks
  /\ \E step \in Steps : now' = now + step
  /\ ticks' = ticks + 1
  /\ last' = Ended("tick", 0)
  /\ UNCHANGED <<messages, next_id, sent, group_settings, pc, local>>

start ==
  /\ \E chat \in Chats :
       last' = [Ended("start", chat.id) EXCEPT !.replies = <<Text("welcome", 0, "")>>]
  /\ UNCHANGED <<now, ticks, messages, next_id, sent, group_settings, pc, local>>

\* summarizer.<name>(messages): the outcomes of calling the method called name
summarizer_call(name, msgs) ==
  IF name \notin SummarizerMethods
  THEN { [value |-> Text("AttributeError", 0, name), submitted |-> <<>>,
          generation |-> "none", raised |-> TRUE] }
  ELSE summarize_messages(msgs)

\* the replies of catchup and person after the messages were fetched
summary_replies(summary, head, count) ==
  IF summary.raised
  THEN <<Text("error_occurred", 0, "")>>
  ELSE <<Text(head, count, summary.value.kind)>>

catchup ==
  /\ \E chat \in Chats :
       IF chat.type \notin {"group", "supergroup"}
       THEN last' = [Ended("catchup", chat.id) EXCEPT
                       !.replies = <<Text("only_in_groups", 0, "")>>]
       ELSE \E configured \in get_group_setting(chat.id) :
            \E fetched \in get_recent_messages(chat.id, configured.value) :
              LET lookback_minutes == configured.value
                  msgs == fetched.value
                  done == [Ended("catchup", chat.id) EXCEPT
                             !.minutes = lookback_minutes, !.rows = msgs,
                             !.backend = <<configured.backend_ok, fetched.backend_ok>>]
              IN IF ~(Len(msgs) > 0)
                 THEN last' = [done EXCEPT !.replies =
                                 <<Text("no_messages_in_last", lookback_minutes, "")>>]
                 ELSE \E summary \in summarizer_call("summarize", msgs) :
                        last' = [done EXCEPT
                                   !.replies = <<Text("generating_summary", 0, "")>>
                                               \o summary_replies(summary, "summary_of_last",
                                                                  lookback_minutes),
                                   !.submitted = summary.submitted,
                                   !.generation = summary.generation]
  /\ UNCHANGED <<now, ticks, messages, next_id, sent, group_settings, pc, local>>

setting ==
  /\ \E chat \in Chats, status \in Statuses :
       IF chat.type \notin {"group", "supergroup"}
       THEN last' = [Ended("setting", chat.id) EXCEPT
                       !.replies = <<Text("only_in_groups", 0, "")>>]
       ELSE IF status \notin {"creator", "administrator"}
       THEN last' = [Ended("setting", chat.id) EXCEPT
                       !.replies = <<Text("only_admins", 0, "")>>]
       ELSE \E current \in get_group_setting(chat.id) :
              last' = [Ended("setting", chat.id) EXCEPT
                         !.minutes = current.value,
                         !.backend = <<current.backend_ok>>,
                         !.replies = <<Text("current_setting", current.value, "keyboard")>>]
  /\ UNCHANGED <<now, ticks, messages, next_id, sent, group_settings, pc, local>>

\* setting_callback up to and including the first request of
\* update_group_setting (the select), for a button pressed by a user of any
\* status: the handler does not look the status up.  The except of
\* update_group_setting turns a backend error into return None, and the
\* handler goes on to its reply
setting_callback_select(p) ==
  /\ pc[p] = "idle"
  /\ \E chat \in GroupChats, data \in CallbackData, status \in Pressers :
       LET parsed == parse_minutes(data)
       IN IF ~parsed.ok
          THEN /\ last' = [Ended("setting_callback", chat.id) EXCEPT
                             !.status = status,
                             !.replies = <<Text("error_updating_setting", 0, "")>>]
               /\ UNCHANGED <<pc, local>>
          ELSE \E existing \in existing_setting(chat.id) :
                 IF existing.backend_ok
                 THEN /\ pc' = [pc EXCEPT ![p] = "write"]
                      /\ local' = [local EXCEPT ![p] =
                                     [group_id |-> chat.id, minutes |-> parsed.minutes,
                                      existing |-> existing.value, status |-> status]]
                      /\ last' = [Ended("update_group_setting_select", chat.id) EXCEPT
                                    !.minutes = parsed.minutes, !.backend = <<TRUE>>,
                                    !.status = status]
                 ELSE /\ last' = [Ended("setting_callback", chat.id) EXCEPT
                                    !.minutes = parsed.minutes, !.backend = <<FALSE>>,
                                    !.status = status,
                                    !.replies = <<Text("setting_updated", parsed.minutes, "")>>]
                      /\ UNCHANGED <<pc, local>>
  /\ UNCHANGED <<now, ticks, messages, next_id, sent, group_settings>>

\* the second request of update_group_setting (update or insert, as the select
\* decided) and the rest of setting_callback
setting_callback_write(p) ==
  /\ pc[p] = "write"
  /\ \E written \in write_setting(local[p].group_id, local[p].minutes, local[p].existing) :
       /\ group_settings' = written.table
       /\ last' = [Ended("setting_callback", local[p].group_id) EXCEPT
                     !.minutes = local[p].minutes,
                     !.backend = <<TRUE, written.backend_ok>>,
                     !.status = local[p].status,
                     !.replies = <<Text("setting_updated", local[p].minutes, "")>>]
  /\ pc' = [pc EXCEPT ![p] = "idle"]
  /\ local' = [local EXCEPT ![p] = Idle]
  /\ UNCHANGED <<now, ticks, messages, next_id, sent>>

\* display_name of who: "@username" if username else first_name
who_display(username, first_name) ==
  IF Truthy(username) THEN <<"@", username>> ELSE <<"", first_name>>

who ==
  /\ \E chat \in Chats :
       IF chat.type \notin {"group", "supergroup"}
       THEN last' = [Ended("who", chat.id) EXCEPT
                       !.replies = <<Text("only_in_groups", 0, "")>>]
       ELSE \E configured \in get_group_setting(chat.id) :
            \E counted \in get_user_stats(chat.id, configured.value, StatsLimit) :
              LET lookback_minutes == configured.value
                  stats == counted.value
                  done == [Ended("who", chat.id) EXCEPT
                             !.minutes = lookback_minutes, !.stats = stats,
                             !.backend = <<configured.backend_ok, counted.backend_ok>>]
              IN IF ~(Len(stats) > 0)
                 THEN last' = [done EXCEPT !.replies =
                                 <<Text("no_messages_in_last", lookback_minutes, "")>>]
                 ELSE last' = [done EXCEPT
                                 !.replies = <<Text("most_active_users", lookback_minutes, "")>>,
                                 !.lines = [i \in 1..Len(stats) |->
                                              <<i, who_display(stats[i][1], stats[i][2]),
                                                stats[i][3]>>]]
  /\ UNCHANGED <<now, ticks, messages, next_id, sent, group_settings, pc, local>>

person ==
  /\ \E chat \in Chats, args \in PersonArgs :
       IF chat.type \notin {"group", "supergroup"}
       THEN last' = [Ended("person", chat.id) EXCEPT
                       !.replies = <<Text("only_in_groups", 0, "")>>]
       ELSE IF ~(Len(args) > 0)
       THEN last' = [Ended("person", chat.id) EXCEPT !.replies = <<Text("usage", 0, "")>>]
       ELSE \E configured \in get_group_setting(chat.id) :
            \E fetched \in get_user_messages(chat.id, lstrip_at(args[1]), configured.value) :
              LET target_username == lstrip_at(args[1])
                  lookback_minutes == configured.value
                  msgs == fetched.value
                  done == [Ended("person", chat.id) EXCEPT
                             !.minutes = lookback_minutes, !.rows = msgs,
                             !.backend = <<configured.backend_ok, fetched.backend_ok>>]
              IN IF ~(Len(msgs) > 0)
                 THEN last' = [done EXCEPT !.replies =
                                 <<Text("no_messages_from", lookback_minutes, target_username)>>]
                 ELSE \E summary \in summarizer_call("summarize", msgs) :
                        last' = [done EXCEPT
                                   !.replies = summary_replies(summary, "summary_of_user", 0),
                                   !.submitted = summary.submitted,
                                   !.generation = summary.generation]
  /\ UNCHANGED <<now, ticks, messages, next_id, sent, group_settings, pc, local>>

\* message_handler without its two conditions on the chat type and the text
message_handler_unfiltered ==
  /\ sent < MaxMessages
  /\ \E chat \in Chats, text \in Texts :
     \E from_user \in Members(chat) :
     \E stored \in store_message(chat.id, sent + 1, from_user.id,
                                  Or(from_user.username, "unknown"),
                                  Or(from_user.first_name, "Unknown"),
                                  text, now) :
       /\ sent' = sent + 1
       /\ messages' = stored.table
       /\ next_id' = IF stored.backend_ok THEN next_id + 1 ELSE next_id
       /\ last' = [Ended("message_handler", chat.id) EXCEPT
                     !.backend = <<stored.backend_ok>>]
  /\ UNCHANGED <<now, ticks, group_settings, pc, local>>

\* an inbound message, after the filter TEXT & ~COMMAND of the registration.
\* A text message of a group gets the next message id of Telegram.
message_handler ==
  /\ sent < MaxMessages
  /\ \E chat \in Chats, text \in Texts :
     \E from_user \in Members(chat) :
       IF ~Truthy(text) \/ chat.type \notin {"group", "supergroup"}
       THEN /\ last' = Ended("message_handler", chat.id)
            /\ UNCHANGED <<messages, next_id, sent>>
       ELSE \E stored \in store_message(chat.id, sent + 1, from_user.id,
                                        Or(from_user.username, "unknown"),
                                        Or(from_user.first_name, "Unknown"),
                                        text, now) :
              /\ sent' = sent + 1
              /\ messages' = stored.table
              /\ next_id' = IF stored.backend_ok THEN next_id + 1 ELSE next_id
              /\ last' = [Ended("message_handler", chat.id) EXCEPT
                            !.backend = <<stored.backend_ok>>]
  /\ UNCHANGED <<now, ticks, group_settings, pc, local>>

\* the transport delivers again the update a stored row came from (an update
\* not yet confirmed when the bot restarts, a webhook that is retried): the
\* handler runs again on the same chat, message id, author, text and date
message_handler_redelivered ==
  /\ next_id <= MaxMessages
  /\ \E m \in messages :
     \E stored \in store_message(m.group_id, m.message_id, m.user_id,
                                  Or(m.username, "unknown"), Or(m.first_name, "Unknown"),
                                  m.message_text, m.timestamp.iso) :
       /\ messages' = stored.table
       /\ next_id' = IF stored.backend_ok THEN next_id + 1 ELSE next_id
       /\ last' = [Ended("message_handler", m.group_id) EXCEPT
                     !.backend = <<stored.backend_ok>>]
  /\ UNCHANGED <<now, ticks, sent, group_settings, pc, local>>

\* the scheduled job.  cutoff is the cutoff_date of the run, deleted the rows it
\* removed; repeat says that the operation before it was an answered cleanup
\* with the same cutoff, and earlier is what that one removed
daily_cleanup ==
  /\ \E cleaned \in cleanup_old_data(CleanupDays) :
       /\ messages' = cleaned.table
       /\ last' = [Ended("daily_cleanup", 0) EXCEPT
                     !.backend = <<cleaned.backend_ok>>,
                     !.cutoff = now - CleanupDays * MinutesPerDay,
                     !.deleted = messages \ cleaned.table,
                     !.repeat = (last.op = "daily_cleanup" /\ last.backend = <<TRUE>>),
                     !.earlier = IF last.op = "daily_cleanup" /\ last.backend = <<TRUE>>
                                 THEN last.deleted ELSE {}]
  /\ UNCHANGED <<now, ticks, next_id, sent, group_settings, pc, local>>

\* a call of Summarizer.summarize_messages with the rows get_recent_messages
\* returns for a group and its window
call_summarize_messages ==
  /\ \E chat \in GroupChats :
     \E configured \in get_group_setting(chat.id) :
     \E fetched \in get_recent_messages(chat.id, configured.value) :
     \E summary \in summarizer_call("summarize_messages", fetched.value) :
       last' = [Ended("summarize_messages", chat.id) EXCEPT
                  !.minutes = configured.value, !.rows = fetched.value,
                  !.backend = <<configured.backend_ok, fetched.backend_ok>>,
                  !.replies = <<summary.value>>,
                  !.submitted = summary.submitted,
                  !.generation = summary.generation,
                  !.raised = summary.raised]
  /\ UNCHANGED <<now, ticks, messages, next_id, sent, group_settings, pc, local>>

\* The whole program.  The specifications after Spec run parts of it: the
\* handlers a property is about, from the stores they can start with.
Next ==
  \/ Tick
  \/ start
  \/ catchup
  \/ setting
  \/ \E p \in Callers : setting_callback_select(p)
  \/ \E p \in Callers : setting_callback_write(p)
  \/ who
  \/ person
  \/ message_handler
  \/ message_handler_redelivered
  \/ daily_cleanup
  \/ call_summarize_messages

Spec == Init /\ [][Next]_vars

\* The messages: ingestion, the queries, the reports and the cleanup, for every
\* setting group 1 can start with (no setting, a button of the keyboard, a
\* value a client made up); group 2 has no setting.
SettingsAtStart ==
  {{}} \cup { { [id |-> 1, group_id |-> 1, lookback_minutes |-> minutes] } :
              minutes \in {10080, 43200, 0} }

InitMessages ==
  /\ now = 0
  /\ ticks = 0
  /\ messages = {}
  /\ next_id = 1
  /\ sent = 0
  /\ group_settings \in SettingsAtStart
  /\ pc = [p \in Callers |-> "idle"]
  /\ local = [p \in Callers |-> Idle]
  /\ last = Ended("main", 0)

NextMessages ==
  \/ Tick
  \/ catchup
  \/ who
  \/ person
  \/ message_handler
  \/ daily_cleanup
  \/ call_summarize_messages

SpecMessages == InitMessages /\ [][NextMessages]_vars

\* The summaries: ingestion, the passing of time, /catchup and
\* Summarizer.summarize_messages, for every setting group 1 can start with.
NextSummary ==
  \/ Tick
  \/ message_handler
  \/ catchup
  \/ call_summarize_messages

SpecSummary == InitMessages /\ [][NextSummary]_vars

\* The life of a message: ingestion, the passing of time, the cleanup and
\* every query and report that reads the messages, on a store without settings.
SpecLifecycle == Init /\ [][NextMessages]_vars

\* The ingestion: inbound messages, redelivered ones included, and the
\* passing of time.
NextIngestion ==
  \/ Tick
  \/ message_handler
  \/ message_handler_redelivered

SpecIngestion == Init /\ [][NextIngestion]_vars

\* The retention: ingestion, the passing of time and the scheduled cleanup.
NextRetention ==
  \/ Tick
  \/ message_handler
  \/ daily_cleanup

SpecRetention == Init /\ [][NextRetention]_vars

\* The size of a summary: group 1 starts with a message a minute for the
\* last MAX_MESSAGES_PER_SUMMARY minutes, all inside its window of one week,
\* and goes on receiving messages.
InitBulk ==
  /\ now = 0
  /\ ticks = 0
  /\ messages = { [id |-> i, group_id |-> 1, message_id |-> i, user_id |-> 1,
                   username |-> "alice", first_name |-> "Alice", message_text |-> "hi",
                   timestamp |-> isoformat(i - MAX_MESSAGES_PER_SUMMARY - 1)] :
                  i \in 1..MAX_MESSAGES_PER_SUMMARY }
  /\ next_id = MAX_MESSAGES_PER_SUMMARY + 1
  /\ sent = 0
  /\ group_settings = { [id |-> 1, group_id |-> 1, lookback_minutes |-> 10080] }
  /\ pc = [p \in Callers |-> "idle"]
  /\ local = [p \in Callers |-> Idle]
  /\ last = Ended("main", 0)

NextBulk ==
  \/ message_handler
  \/ call_summarize_messages

SpecBulk == InitBulk /\ [][NextBulk]_vars

\* The settings: the /setting command and the callbacks of two callers, on a
\* store without messages.
NextSettings ==
  \/ start
  \/ setting
  \/ \E p \in Callers : setting_callback_select(p)
  \/ \E p \in Callers : setting_callback_write(p)

SpecSettings == Init /\ [][NextSettings]_vars

\* The groups side by side: ingestion and the callbacks of one caller, in both
\* groups, a week after the first message of group 2 was stored.
InitIsolation ==
  /\ now = CleanupDays * MinutesPerDay
  /\ ticks = 1
  /\ messages = { [id |-> 1, group_id |-> 2, message_id |-> 1, user_id |-> 1,
                   username |-> "alice", first_name |-> "Alice", message_text |-> "hi",
                   timestamp |-> isoformat(0)] }
  /\ next_id = 2
  /\ sent = 1
  /\ group_settings = {}
  /\ pc = [p \in Callers |-> "idle"]
  /\ local = [p \in Callers |-> Idle]
  /\ last = Ended("tick", 0)

NextIsolation ==
  \/ message_handler
  \/ setting_callback_select(1)
  \/ setting_callback_write(1)

SpecIsolation == InitIsolation /\ [][NextIsolation]_vars

\* ================================================================ claims

\* the rows of the chat of the last operation that lie in the window it used
InWindow == select_since(last.chat_id, now - last.minutes)

\* the user an inbound message of that user id came from
Author(user_id) == CHOOSE u \in Users : u.id = user_id

\* C1: get_recent_messages(G, W) returns exactly the stored messages of G with
\* timestamp >= now - W, none from other groups, none older, none missing, by
\* ascending timestamp.  Stated of the rows /catchup and the call of
\* summarize_messages fetch.
C1_RecentMessagesExact ==
  (last.op \in {"catchup", "summarize_messages"} /\ Len(last.backend) = 2)
    => last.rows \in order_timestamp(InWindow)

\* C2: get_user_stats returns at most limit entries by descending count, ties
\* by first appearance in ascending timestamp order, whatever the order in
\* which the backend returns the rows.  Stated of the statistics /who gets
\* when the backend answers.
C2_RankByTimestampOrder ==
  (last.op = "who" /\ Len(last.backend) = 2 /\ last.backend[2])
    => last.stats \in { user_stats(name_columns(rows), StatsLimit) :
                          rows \in order_timestamp(InWindow) }

\* C3: a lookback of zero or less is refused with an error and leaves the
\* stored setting as it was: no stored setting is ever <= 0, a callback with
\* such a value that reached the backend is answered by the error text, and
\* /setting never shows such a value.
C3_NonPositiveRejected ==
  /\ \A s \in group_settings : s.lookback_minutes > 0
  /\ (last.op = "setting_callback" /\ last.minutes <= 0 /\ last.backend = <<TRUE, TRUE>>)
       => last.replies = <<Text("error_updating_setting", 0, "")>>
  /\ (last.op = "setting" /\ last.backend = <<TRUE>>) => last.minutes > 0

\* C4: under every interleaving of concurrent updates of the setting of one
\* group, group_settings holds at most one row of that group.
C4_OneRowPerGroup ==
  \A chat \in GroupChats :
    Cardinality({s \in group_settings : s.group_id = chat.id}) <= 1

\* C5: the cleanup never removes a message whose timestamp is >= its cutoff,
\* and run again with the same cutoff it removes nothing more.
C5_CleanupIdempotentExact ==
  last.op = "daily_cleanup"
    => /\ \A m \in last.deleted : m.timestamp.iso < last.cutoff
       /\ \A m \in messages : last.backend = <<TRUE>> => m.timestamp.iso >= last.cutoff
       /\ last.repeat => last.deleted = {}

\* a second cleanup in a row, after a first one that removed a message, on a
\* store that still holds one
C5_Witness ==
  /\ last.op = "daily_cleanup"
  /\ last.backend = <<TRUE>>
  /\ last.repeat
  /\ last.earlier # {}
  /\ messages # {}

\* C6: when the window of the group holds no message, /catchup answers that
\* there are no messages and summarize_messages returns its text for that case,
\* and nothing is given to the Groq client.
C6_EmptyWindowSentinel ==
  /\ (last.op = "catchup" /\ Len(last.backend) = 2 /\ InWindow = {})
       => /\ last.replies = <<Text("no_messages_in_last", last.minutes, "")>>
          /\ last.submitted = <<>>
  /\ (last.op = "summarize_messages" /\ InWindow = {})
       => /\ last.replies = <<Text("no_messages_found", 0, "")>>
          /\ last.submitted = <<>>
          /\ ~last.raised

\* summarize_messages was called for a group whose messages are all older
\* than its window, the backend answering
C6_Witness ==
  /\ last.op = "summarize_messages"
  /\ last.backend = <<TRUE, TRUE>>
  /\ InWindow = {}
  /\ \E m \in messages : m.group_id = last.chat_id
  /\ last.replies = <<Text("no_messages_found", 0, "")>>

\* C7: when the Groq call raises on a window that holds messages, the
\* operation returns the error text and no exception leaves it.
C7_GenerationFailureReturned ==
  (last.op \in {"catchup", "summarize_messages"} /\ last.generation = "raised")
    => /\ ~last.raised
       /\ Len(last.replies) > 0
       /\ last.replies[Len(last.replies)].kind
            \in {"error_generating_summary", "error_occurred"}

\* the Groq call raised on a transcript of at least one message
C7_Witness ==
  /\ last.op = "summarize_messages"
  /\ last.generation = "raised"
  /\ Len(last.rows) > 0
  /\ last.submitted = <<conversation(last.rows)>>
  /\ last.replies = <<Text("error_generating_summary", 0, "timeout")>>

\* C8: an operation on the messages run while the backend errors reports the
\* failure: an exception leaves it or its caller is told of an error; a query
\* that failed is not answered as an empty result and an insert that failed is
\* not taken as stored.
C8_StoreUnavailableReported ==
  (last.op \in {"catchup", "message_handler", "daily_cleanup"}
     /\ Len(last.backend) > 0 /\ ~last.backend[Len(last.backend)])
    => \/ last.raised
       \/ /\ Len(last.replies) > 0
          /\ last.replies[Len(last.replies)].kind = "error_occurred"

\* C9: a transcript given to the Groq client holds at most
\* MAX_MESSAGES_PER_SUMMARY messages.
C9_TranscriptBounded ==
  \A i \in 1..Len(last.submitted) : Len(last.submitted[i]) <= MAX_MESSAGES_PER_SUMMARY

\* C10: the name of the author of a stored message in a transcript is the
\* username the message came with if there is one, else the first name, else a
\* fixed placeholder.
C10_DisplayNameFallback ==
  last.op = "summarize_messages"
    => \A k \in 1..Len(last.submitted) : \A i \in 1..Len(last.rows) :
         LET from_user == Author(last.rows[i].user_id)
             shown == last.submitted[k][i][2]
         IN IF Truthy(from_user.username) THEN shown = from_user.username
            ELSE IF Truthy(from_user.first_name) THEN shown = from_user.first_name
            ELSE shown \in {"unknown", "Unknown"}

\* the lookback values stored for the chat of the last operation
StoredLookback == {s.lookback_minutes : s \in {r \in group_settings : r.group_id = last.chat_id}}

\* C11: reading the window of a group never fails, gives a stored setting of
\* the group whenever one is stored, and DEFAULT_LOOKBACK_MINUTES only when
\* none is stored.  Stated of the value /setting shows to an administrator.
C11_ConfiguredOrDefault ==
  (last.op = "setting" /\ Len(last.backend) = 1)
    => /\ ~last.raised
       /\ IF StoredLookback # {} THEN last.minutes \in StoredLookback
          ELSE last.minutes = DEFAULT_LOOKBACK_MINUTES

\* C12: a stored setting changes only through an action of a creator or an
\* administrator of the group.
C12_OnlyAdminsChange ==
  [][group_settings' # group_settings
       => last'.status \in {"creator", "administrator"}]_vars

\* C13: a stored message stays as it was ingested until the cleanup removes
\* it, and the cleanup removes it only when it is older than
\* MESSAGE_RETENTION_DAYS; no other operation removes or rewrites a row, and
\* only the ingestion adds one, with the fields of the inbound message.
C13_Lifecycle ==
  [][ /\ \A m \in messages \ messages' :
           /\ last'.op = "daily_cleanup"
           /\ m.timestamp.iso < now - MESSAGE_RETENTION_DAYS * MinutesPerDay
      /\ \A m \in messages' \ messages :
           /\ last'.op = "message_handler"
           /\ m.group_id = last'.chat_id
           /\ m.message_id = sent'
           /\ m.timestamp = isoformat(now)
           /\ m.user_id \in {u.id : u \in Users}
           /\ Truthy(m.message_text) ]_vars

\* a cleanup removed a message and left one whose age is exactly the horizon
C13_Witness ==
  /\ last.op = "daily_cleanup"
  /\ last.deleted # {}
  /\ \E m \in messages : m.timestamp.iso = now - MESSAGE_RETENTION_DAYS * MinutesPerDay

\* C14: when every update of the setting of a group has completed, reading
\* the setting gives the value of the update whose write came last.  Stated
\* at the end of a setting_callback whose write was the last one, no other
\* call being under way, of every answer the backend can give to the read.
C14_LastWriteWins ==
  (last.op = "setting_callback" /\ last.backend = <<TRUE, TRUE>>
     /\ \A p \in Callers : pc[p] = "idle")
    => \A read \in get_group_setting(last.chat_id) :
         read.backend_ok => read.value = last.minutes

\* the usernames /person can ask for
Usernames == {"alice", "unknown"}

\* the rows the select of get_user_stats can return, in every order
stats_select(group_id, minutes) == Perms(select_since(group_id, now - minutes))

\* C15: storing a message of a group, or changing the setting of a group,
\* leaves what get_recent_messages, get_user_messages, get_user_stats and
\* get_group_setting can return for every other group as it was.  The
\* messages and the rows get_user_stats selects are compared at every window
\* of the keyboard, the statistics at the default window and at one week.
C15_GroupIsolation ==
  [][ (messages' # messages \/ group_settings' # group_settings)
        => \A other \in GroupChats :
             other.id # last'.chat_id
               => /\ get_group_setting(other.id)' = get_group_setting(other.id)
                  /\ \A minutes \in TIME_WINDOWS :
                       /\ get_recent_messages(other.id, minutes)'
                            = get_recent_messages(other.id, minutes)
                       /\ stats_select(other.id, minutes)'
                            = stats_select(other.id, minutes)
                       /\ \A username \in Usernames :
                            get_user_messages(other.id, username, minutes)'
                              = get_user_messages(other.id, username, minutes)
                  /\ \A minutes \in {DEFAULT_LOOKBACK_MINUTES,
                                     MESSAGE_RETENTION_DAYS * MinutesPerDay} :
                       get_user_stats(other.id, minutes, StatsLimit)'
                         = get_user_stats(other.id, minutes, StatsLimit) ]_vars

\* a message was stored in group 1 while group 2 has a message in the window
\* "1 week" but not in the default window, and a setting
C15_Witness ==
  /\ last.op = "message_handler"
  /\ last.chat_id = 1
  /\ last.backend = <<TRUE>>
  /\ select_since(2, now - 10080) # {}
  /\ select_since(2, now - DEFAULT_LOOKBACK_MINUTES) = {}
  /\ \E s \in group_settings : s.group_id = 2

\* C16: a /catchup on a window that holds messages gives the transcript to the
\* Groq client exactly once, whether the call answers or raises.
C16_SubmittedOnce ==
  (last.op = "catchup" /\ Len(last.rows) > 0) => Len(last.submitted) = 1

\* C17: the messages /person fetches with get_user_messages were all written
\* by one author: they share their user_id.
C17_SingleAuthor ==
  last.op = "person"
    => \A i, j \in 1..Len(last.rows) : last.rows[i].user_id = last.rows[j].user_id

\* the sum of the counts of a ranking
RECURSIVE total(_)
total(stats) == IF stats = <<>> THEN 0 ELSE stats[1][3] + total(Tail(stats))

\* the identity keys of the rows in the window: (username, first_name)
KeysInWindow == {<<m.username, m.first_name>> : m \in InWindow}

\* C18: when limit is at least the number of identity keys in the window, the
\* counts of the ranking sum to the number of messages of the group in the
\* window, every count is at least 1, and every key of the window has its
\* entry, the keys of messages that came without a username included.
\* Stated of the statistics /who gets.
C18_NoAuthorDropped ==
  (last.op = "who" /\ Len(last.backend) = 2 /\ StatsLimit >= Cardinality(KeysInWindow))
    => /\ total(last.stats) = Cardinality(InWindow)
       /\ \A i \in 1..Len(last.stats) : last.stats[i][3] >= 1
       /\ \A key \in KeysInWindow :
            \E i \in 1..Len(last.stats) : <<last.stats[i][1], last.stats[i][2]>> = key

\* C19: every stored message has a text that is not empty and the id of a
\* group or supergroup chat as its group: an update without text or from a
\* private chat adds no row.
C19_OnlyGroupText ==
  \A m \in messages :
    /\ Truthy(m.message_text)
    /\ m.group_id \in {chat.id : chat \in GroupChats}

\* an update of the private chat was handled on a store that holds a message
C19_Witness ==
  /\ last.op = "message_handler"
  /\ \E chat \in Chats \ GroupChats : last.chat_id = chat.id
  /\ messages # {}

\* C20: no two stored messages of one group have the same message id, also
\* when an inbound message is delivered to the handler more than once.
C20_UniqueMessageId ==
  \A m1, m2 \in messages :
    (m1.group_id = m2.group_id /\ m1.message_id = m2.message_id) => m1 = m2

\* C21: when setting_callback answers "Setting updated" with a value for a
\* group, group_settings holds that value for the group at that moment; when
\* a request of update_group_setting failed, the answer is the error text.
C21_UpdatedMeansStored ==
  last.op = "setting_callback"
    => /\ last.replies = <<Text("setting_updated", last.minutes, "")>>
            => \E s \in group_settings :
                 s.group_id = last.chat_id /\ s.lookback_minutes = last.minutes
       /\ (Len(last.backend) > 0 /\ ~last.backend[Len(last.backend)])
            => last.replies = <<Text("error_updating_setting", 0, "")>>

\* C22: for every window of the /setting keyboard, a message the cleanup
\* removed was older than the window: a stored message of a group with
\* timestamp >= now - window is still returned by get_recent_messages after
\* the cleanup, whenever the backend answers.
C22_WindowWithinRetention ==
  last.op = "daily_cleanup"
    => \A m \in last.deleted : \A minutes \in TIME_WINDOWS :
         m.timestamp.iso >= now - minutes
           => \A fetched \in get_recent_messages(m.group_id, minutes) :
                fetched.backend_ok
                  => \E i \in 1..Len(fetched.value) : fetched.value[i] = m

====
